---- MODULE Spec2Model ----
(***************************************************************************)
(* typespecs: conversion of annotated type hints into specification        *)
(* DataFrames (src/typespecs/api.py, spec.py, typing.py).                   *)
(*                                                                         *)
(* Python strings are sequences of code points, so that concatenation,     *)
(* str(int) and the lexicographic order of column names are what Python    *)
(* computes.  An optional string (str | None) is a sequence of zero or one *)
(* strings.  A DataFrame is a record of its row labels, its column labels  *)
(* and its cells; a call that raises returns the frame Raised.             *)
(***************************************************************************)
EXTENDS Integers, Sequences, FiniteSets, TLC

VARIABLES pc, args, ret

vars == <<pc, args, ret>>

(***************************************************************************)
(* Bounds of the model.                                                    *)
(***************************************************************************)
\* largest number of type arguments of one annotation
MaxArgs == 11

(***************************************************************************)
(* Strings.                                                                *)
(***************************************************************************)
S_a == <<97>>
S_b == <<98>>
S_f == <<102>>
S_f0 == <<102, 48>>
S_g == <<103>>
S_r == <<114>>
S_data == <<100, 97, 116, 97>>
S_type == <<116, 121, 112, 101>>
S_slash == <<47>>
S_one == <<49>>
S_empty == <<>>

\* str(i) for an int i >= 0: its decimal digits
RECURSIVE str(_)
str(i) == IF i < 10 THEN <<48 + i>> ELSE str(i \div 10) \o <<48 + (i % 10)>>

\* s < t in Python's order of str (code point by code point)
RECURSIVE StrLess(_, _)
StrLess(s, t) ==
    IF t = <<>> THEN FALSE
    ELSE IF s = <<>> THEN TRUE
    ELSE IF Head(s) # Head(t) THEN Head(s) < Head(t)
    ELSE StrLess(Tail(s), Tail(t))

Range(s) == {s[i] : i \in 1..Len(s)}

(***************************************************************************)
(* Python objects that occur as values of a Spec and as cells of a frame.  *)
(* id tells two objects of one kind apart (object identity); type holds    *)
(* the annotation when the object is a type hint.                          *)
(***************************************************************************)
Obj(k, i) == [kind |-> k, id |-> i, type |-> <<>>]
\* pandas.NA, a singleton
NA == Obj("NA", 0)
\* None: null for pandas (isna, bfill), but not identical to <NA>
None == Obj("None", 0)
IntObj(i) == Obj("int", i)
\* the ITSELF sentinel, and another instance of its type, ItselfType()
ITSELF == Obj("Itself", 0)
OtherItself == Obj("Itself", 1)
TypeObj(t) == [kind |-> "type", id |-> 0, type |-> <<t>>]

\* ItselfType.__eq__: any two instances of the sentinel's type are equal
ItselfEq(x, y) == x.kind = "Itself" /\ y.kind = "Itself"

\* x == y in Python, for the objects of the model
PyEq(x, y) ==
    IF x.kind = "Itself" \/ y.kind = "Itself" THEN ItselfEq(x, y) ELSE x = y

\* x is y
PyIs(x, y) == x = y

(***************************************************************************)
(* Type hints.  A plain class has origin "" and no args; a generic alias   *)
(* (list[int], Literal["x"]) has its origin and its args; Annotated[T, m1, *)
(* ...] has origin "Annotated", args <<T>> and metadata <<m1, ...>>, and   *)
(* get_args of it is <<T, m1, ...>>.                                       *)
(***************************************************************************)
Class(n) == [origin |-> "", name |-> n, args |-> <<>>, metadata |-> <<>>]
Generic(o, as) == [origin |-> o, name |-> o, args |-> as, metadata |-> <<>>]
\* typing.Annotated[t, *ms]: a nested Annotated is flattened
Annotated(t, ms) ==
    IF t.origin = "Annotated"
    THEN [origin |-> "Annotated", name |-> "Annotated", args |-> t.args,
          metadata |-> t.metadata \o ms]
    ELSE [origin |-> "Annotated", name |-> "Annotated", args |-> <<t>>,
          metadata |-> ms]

(***************************************************************************)
(* Metadata objects: a Spec (a dict subclass), a plain dict, anything else.*)
(* items is the dict's items in insertion order.                           *)
(***************************************************************************)
Item(k, v) == [key |-> k, value |-> v]
NewSpec(its) == [cls |-> "Spec", items |-> its]
Dict(its) == [cls |-> "dict", items |-> its]
Other == [cls |-> "str", items |-> <<>>]

Keys(its) == {its[i].key : i \in 1..Len(its)}
\* d[k] for a key of d
Get(its, k) == its[CHOOSE i \in 1..Len(its) : its[i].key = k].value

\* dict.update with one item: an existing key keeps its place
SetItem(its, it) ==
    IF it.key \in Keys(its)
    THEN [i \in 1..Len(its) |-> IF its[i].key = it.key THEN it ELSE its[i]]
    ELSE Append(its, it)

\* dict(pairs) / dict.update(other)
RECURSIVE Update(_, _)
Update(its, other) ==
    IF other = <<>> THEN its
    ELSE Update(SetItem(its, Head(other)), Tail(other))

(***************************************************************************)
(* src/typespecs/spec.py                                                   *)
(***************************************************************************)
\* a replace that compares by identity
replace_is(self, old_value, new_value) ==
    NewSpec(Update(<<>>,
        [i \in 1..Len(self.items) |->
            Item(self.items[i].key,
                 IF PyIs(self.items[i].value, old_value)
                 THEN new_value ELSE self.items[i].value)]))

replace(self, old_value, new_value) ==
    NewSpec(Update(<<>>,
        [i \in 1..Len(self.items) |->
            Item(self.items[i].key,
                 IF PyEq(self.items[i].value, old_value)
                 THEN new_value ELSE self.items[i].value)]))

\* an is_spec that accepts every dict
is_spec_dict(obj) == obj.cls \in {"Spec", "dict"}

is_spec(obj) == obj.cls = "Spec"

(***************************************************************************)
(* src/typespecs/typing.py                                                 *)
(***************************************************************************)
has_metadata(obj) == obj.origin = "Annotated"

is_literal(obj) == obj.origin = "Literal"

\* typing._strip_annotations: Annotated removed at every depth; the args
\* of a Literal are values, not type hints
RECURSIVE strip_annotations(_)
strip_annotations(t) ==
    IF t.origin = "Annotated" THEN strip_annotations(t.args[1])
    ELSE IF t.origin = "Literal" THEN t
    ELSE [t EXCEPT !.args = [i \in 1..Len(t.args) |-> strip_annotations(t.args[i])]]

get_annotation(obj, recursive) ==
    IF recursive THEN strip_annotations(obj)
    ELSE IF has_metadata(obj) THEN obj.args[1] ELSE obj

get_metadata(obj) == IF has_metadata(obj) THEN obj.metadata ELSE <<>>

get_subtypes(obj) ==
    IF is_literal(get_annotation(obj, FALSE)) THEN <<>>
    ELSE get_annotation(obj, FALSE).args

\* api.py imports get_subannotations and get_annotations from .typing
get_subannotations(obj) == get_subtypes(obj)

get_annotations(obj) == obj.annotations

(***************************************************************************)
(* pandas.DataFrame with dtype=object, as far as api.py uses it.           *)
(***************************************************************************)
Frame(ix, cols, d) == [raised |-> FALSE, index |-> ix, columns |-> cols, data |-> d]
\* the call raised instead of returning a frame
Raised == [raised |-> TRUE, index |-> <<>>, columns |-> <<>>, data |-> <<>>]

\* position of the first x in sequence s
IndexOf(s, x) == CHOOSE i \in 1..Len(s) : s[i] = x /\ \A j \in 1..(i - 1) : s[j] # x

HasDuplicates(s) == \E i, j \in 1..Len(s) : i < j /\ s[i] = s[j]

\* Index.unique(): first occurrences, in order
RECURSIVE unique(_)
unique(s) ==
    IF s = <<>> THEN <<>>
    ELSE LET u == unique(SubSeq(s, 1, Len(s) - 1))
         IN IF s[Len(s)] \in Range(u) THEN u ELSE Append(u, s[Len(s)])

\* insert a string into a sorted sequence of strings
RECURSIVE Insert(_, _)
Insert(s, x) ==
    IF s = <<>> THEN <<x>>
    ELSE IF StrLess(x, Head(s)) THEN <<x>> \o s
    ELSE <<Head(s)>> \o Insert(Tail(s), x)

\* Index.sort_values() of an index of str
RECURSIVE sort_values(_)
sort_values(s) ==
    IF s = <<>> THEN <<>> ELSE Insert(sort_values(Tail(s)), Head(s))

\* concatenation of a sequence of sequences
RECURSIVE Flatten(_)
Flatten(ss) == IF ss = <<>> THEN <<>> ELSE Head(ss) \o Flatten(Tail(ss))

\* pd.DataFrame(data={key: [value] ...}, index=[index], dtype=object)
DataFrame(specs, index) ==
    Frame(<<index>>,
          [i \in 1..Len(specs) |-> specs[i].key],
          <<[i \in 1..Len(specs) |-> specs[i].value]>>)

\* Index.get_indexer_non_unique: for each key, every position that holds it
PositionsOf(ix, label) ==
    SelectSeq([i \in 1..Len(ix) |-> i], LAMBDA i : ix[i] = label)

Indexer(ix, keys) == Flatten([k \in 1..Len(keys) |-> PositionsOf(ix, keys[k])])

\* frame.loc[obj.index, obj.columns] = obj.  The rows of frame that carry a
\* label of obj are all selected; obj is aligned to them by label (reindex),
\* which raises when obj itself has duplicate labels.
LocAssign(frame, obj) ==
    LET indexer == Indexer(frame.index, obj.index)
        idx == [k \in 1..Len(indexer) |-> frame.index[indexer[k]]]
        same == idx = obj.index
        val(k) == IF same THEN obj.data[k]
                  ELSE obj.data[IndexOf(obj.index, idx[k])]
        hits(r) == {k \in 1..Len(indexer) : indexer[k] = r}
        last(r) == CHOOSE k \in hits(r) : \A h \in hits(r) : h <= k
        cell(r, c) ==
            IF hits(r) # {} /\ frame.columns[c] \in Range(obj.columns)
            THEN val(last(r))[IndexOf(obj.columns, frame.columns[c])]
            ELSE frame.data[r][c]
    IN IF frame.raised \/ obj.raised THEN Raised
       ELSE IF ~same /\ HasDuplicates(obj.index) THEN Raised
       ELSE Frame(frame.index, frame.columns,
                  [r \in 1..Len(frame.index) |->
                      [c \in 1..Len(frame.columns) |-> cell(r, c)]])

RECURSIVE AssignAll(_, _)
AssignAll(frame, objs) ==
    IF objs = <<>> THEN frame
    ELSE AssignAll(LocAssign(frame, Head(objs)), Tail(objs))

(***************************************************************************)
(* src/typespecs/api.py                                                    *)
(***************************************************************************)
_concat(objs) ==
    LET indexes == Flatten([i \in 1..Len(objs) |-> objs[i].index])
        columns == sort_values(unique(Flatten([i \in 1..Len(objs) |-> objs[i].columns])))
        frame == Frame(indexes, columns,
                       [r \in 1..Len(indexes) |-> [c \in 1..Len(columns) |-> NA]])
    IN IF \E i \in 1..Len(objs) : objs[i].raised THEN Raised
       ELSE AssignAll(frame, objs)

_isna(obj) == PyIs(obj, NA)

\* pandas.isna: what DataFrame.bfill takes for a missing value
IsNull(obj) == obj.kind \in {"NA", "None"}

\* DataFrame.bfill(): a missing cell takes the next valid cell below it
bfill(obj) ==
    [r \in 1..Len(obj.data) |->
        [c \in 1..Len(obj.columns) |->
            LET valid == {q \in r..Len(obj.data) : ~IsNull(obj.data[q][c])}
            IN IF valid = {} THEN obj.data[r][c]
               ELSE obj.data[CHOOSE q \in valid : \A p \in valid : q <= p][c]]]

_merge(obj) ==
    IF obj.raised THEN Raised
    ELSE LET filled == bfill(obj)
             masked == [r \in 1..Len(obj.data) |->
                           [c \in 1..Len(obj.columns) |->
                               IF _isna(obj.data[r][c]) THEN filled[r][c]
                               ELSE obj.data[r][c]]]
         IN Frame(SubSeq(obj.index, 1, 1), obj.columns, SubSeq(masked, 1, 1))

\* the specs of one node: lines 85-92 of from_annotation
RECURSIVE UpdateAll(_, _, _)
UpdateAll(specs, metadata, type_) ==
    IF metadata = <<>> THEN specs
    ELSE UpdateAll(
            IF is_spec(Head(metadata))
            THEN Update(specs, replace(Head(metadata), ITSELF, type_).items)
            ELSE specs,
            Tail(metadata), type_)

\* Annotated[obj, Spec({type: ITSELF})] when type is not None
WithType(obj, type) ==
    IF type # <<>> THEN Annotated(obj, <<NewSpec(<<Item(type[1], ITSELF)>>)>>)
    ELSE obj

\* a row label that leaves the separator out
SubIndexBare(index, separator, subindex) == index \o str(subindex)

\* f"{index}{separator}{subindex}"
SubIndex(index, separator, subindex) == index \o separator \o str(subindex)

RECURSIVE from_annotation(_, _, _, _, _)
from_annotation(obj0, index, merge, separator, type) ==
    LET obj == WithType(obj0, type)
        type_ == TypeObj(get_annotation(obj, TRUE))
        specs == UpdateAll(<<>>, get_metadata(obj), type_)
        subs == get_subannotations(obj)
        frames == <<DataFrame(specs, index)>> \o
                  [i \in 1..Len(subs) |->
                      from_annotation(subs[i], SubIndex(index, separator, i - 1),
                                      FALSE, separator, type)]
    IN IF merge THEN _merge(_concat(frames)) ELSE _concat(frames)

\* getattr(obj, name, default)
getattr(obj, name, default) ==
    IF name \in Keys(obj.attrs) THEN Get(obj.attrs, name) ELSE default

\* Annotated[annotation, Spec({data: getattr(obj, index, pd.NA)})]
WithData(obj, index, annotation, data) ==
    IF data # <<>>
    THEN Annotated(annotation, <<NewSpec(<<Item(data[1], getattr(obj, index, NA))>>)>>)
    ELSE annotation

from_annotated(obj, data, merge, separator, type) ==
    LET items == get_annotations(obj)
        frames == [i \in 1..Len(items) |->
                      from_annotation(
                          WithData(obj, items[i].key, items[i].value, data),
                          items[i].key, merge, separator, type)]
    IN _concat(frames)

(***************************************************************************)
(* The inputs of the calls.                                                *)
(***************************************************************************)
\* lists of metadata attached to one annotation
Metas ==
    { <<>>,
      <<NewSpec(<<Item(S_a, IntObj(1))>>)>>,
      <<NewSpec(<<Item(S_a, IntObj(2))>>)>>,
      <<NewSpec(<<Item(S_a, None)>>)>>,
      <<NewSpec(<<Item(S_b, IntObj(1))>>)>>,
      <<Dict(<<Item(S_a, IntObj(1))>>), Other>>,
      <<NewSpec(<<Item(S_type, IntObj(1))>>)>>,
      <<NewSpec(<<Item(S_b, OtherItself)>>)>>,
      <<NewSpec(<<Item(S_a, IntObj(1)), Item(S_b, ITSELF)>>), Other,
        NewSpec(<<Item(S_a, IntObj(2))>>)>> }

FewMetas ==
    { <<>>,
      <<NewSpec(<<Item(S_a, IntObj(1))>>)>>,
      <<NewSpec(<<Item(S_a, IntObj(2))>>)>>,
      <<NewSpec(<<Item(S_a, None)>>)>> }

\* Annotated[t, *m], or t itself when there is no metadata to attach
Ann(t, m) == IF m = <<>> THEN t ELSE Annotated(t, m)

\* tuple[int, list[c1], int, ..., int, clast] with n type arguments
Wide(n, c1, clast) ==
    Generic("tuple",
        [i \in 1..n |->
            IF i = n THEN clast
            ELSE IF i = 2 THEN Generic("list", <<c1>>)
            ELSE Class("int")])

Leaves ==
    {Ann(Class("int"), m) : m \in Metas}
    \cup {Ann(Generic("Literal", <<Class("'x'"), Class("'y'")>>), m) : m \in FewMetas}

Lists == {Ann(Generic("list", <<c>>), m) : c \in Leaves, m \in FewMetas}

Dicts ==
    {Ann(Generic("dict", <<Ann(Class("str"), m1),
                           Ann(Generic("list", <<Ann(Class("int"), m3)>>), m2)>>), m0) :
        m0 \in {<<>>, <<NewSpec(<<Item(S_b, IntObj(1))>>)>>},
        m1 \in FewMetas, m2 \in FewMetas, m3 \in FewMetas}

Wides ==
    {Wide(n, Ann(Class("str"), m1), Ann(Class("float"), m2)) :
        n \in 1..MaxArgs,
        m1 \in {<<>>, <<NewSpec(<<Item(S_b, IntObj(1))>>)>>},
        m2 \in {<<>>, <<NewSpec(<<Item(S_a, IntObj(1))>>)>>}}

Annotations ==
    Leaves \cup Lists \cup Dicts \cup Wides \cup {Generic("list", <<w>>) : w \in Wides}

Separators == {S_slash, S_empty, S_one}

\* objects with annotations: their __annotations__ and their attributes
HasAnnotations(items, attrs) == [annotations |-> items, attrs |-> attrs]

FieldTypes ==
    { Class("int"),
      Ann(Generic("list", <<Ann(Class("int"), <<NewSpec(<<Item(S_a, IntObj(1))>>)>>)>>),
          <<NewSpec(<<Item(S_b, IntObj(1))>>)>>),
      Generic("list", <<Ann(Class("int"), <<NewSpec(<<Item(S_data, IntObj(2))>>)>>)>>),
      Generic("list", <<Wide(MaxArgs, Class("str"), Class("float"))>>) }

AttrValues == {IntObj(1), None, ITSELF}

Annotateds ==
    {HasAnnotations(<<>>, <<>>)}
    \cup {HasAnnotations(<<Item(S_f, t)>>, a) :
            t \in FieldTypes,
            a \in {<<>>} \cup {<<Item(S_f, v)>> : v \in AttrValues}}
    \cup {HasAnnotations(<<Item(n1, t1), Item(n2, t2)>>, <<Item(S_f, IntObj(1))>>) :
            t1 \in FieldTypes, t2 \in FieldTypes,
            n1 \in {S_f}, n2 \in {S_g, S_f0}}

\* values of a Spec whose == gives a bool (pd.NA == x gives <NA>)
Values == {None, IntObj(1), IntObj(2), ITSELF, OtherItself, TypeObj(Class("int"))}

Specs ==
    {NewSpec(<<>>)}
    \cup {NewSpec(<<Item(S_a, v)>>) : v \in Values}
    \cup {NewSpec(<<Item(S_a, v), Item(S_b, w)>>) : v \in Values, w \in Values}

MetaObjects == {NewSpec(<<>>), NewSpec(<<Item(S_a, IntObj(1))>>),
                Dict(<<>>), Dict(<<Item(S_a, IntObj(1))>>), Other}

(***************************************************************************)
(* The state machine: one call at a time, from the idle state.             *)
(***************************************************************************)
NoArgs == [obj |-> <<>>, index |-> <<>>, data |-> <<>>, merge |-> FALSE,
           separator |-> <<>>, type |-> <<>>, old_value |-> NA, new_value |-> NA]

Init == pc = "idle" /\ args = NoArgs /\ ret = <<>>

CallFromAnnotation ==
    /\ pc = "idle"
    /\ \E obj \in Annotations, index \in {S_r, S_empty}, merge \in BOOLEAN,
          separator \in Separators, type \in {<<>>, <<S_type>>, <<S_a>>} :
        /\ args' = [NoArgs EXCEPT !.obj = obj, !.index = index, !.merge = merge,
                                  !.separator = separator, !.type = type]
        /\ ret' = from_annotation(obj, index, merge, separator, type)
    /\ pc' = "from_annotation"

CallFromAnnotated ==
    /\ pc = "idle"
    /\ \E obj \in Annotateds, data \in {<<>>, <<S_data>>, <<S_type>>},
          merge \in BOOLEAN, separator \in Separators, type \in {<<>>, <<S_type>>} :
        /\ args' = [NoArgs EXCEPT !.obj = obj, !.data = data, !.merge = merge,
                                  !.separator = separator, !.type = type]
        /\ ret' = from_annotated(obj, data, merge, separator, type)
    /\ pc' = "from_annotated"

CallReplace ==
    /\ pc = "idle"
    /\ \E self \in Specs, old_value \in Values, new_value \in Values :
        /\ args' = [NoArgs EXCEPT !.obj = self, !.old_value = old_value,
                                  !.new_value = new_value]
        /\ ret' = replace(self, old_value, new_value)
    /\ pc' = "replace"

CallIsSpec ==
    /\ pc = "idle"
    /\ \E obj \in MetaObjects :
        /\ args' = [NoArgs EXCEPT !.obj = obj]
        /\ ret' = is_spec(obj)
    /\ pc' = "is_spec"

Return ==
    /\ pc # "idle"
    /\ pc' = "idle" /\ args' = NoArgs /\ ret' = <<>>

Next ==
    \/ CallFromAnnotation
    \/ CallFromAnnotated
    \/ CallReplace
    \/ CallIsSpec
    \/ Return

Spec == Init /\ [][Next]_vars

(***************************************************************************)
(* What the properties speak of, read off the annotation tree itself.      *)
(***************************************************************************)
\* the annotation below its own metadata
Below(t) == IF t.origin = "Annotated" THEN t.args[1] ELSE t

\* the children of a node: the type arguments, none for a Literal
Children(t) == IF Below(t).origin = "Literal" THEN <<>> ELSE Below(t).args

\* the annotation with the metadata removed at every depth
RECURSIVE Bare(_)
Bare(t) ==
    LET b == Below(t)
    IN IF b.origin = "Literal" THEN b
       ELSE [origin |-> b.origin, name |-> b.name, metadata |-> <<>>,
             args |-> [i \in 1..Len(b.args) |-> Bare(b.args[i])]]

\* the nodes in depth-first pre-order, each with its path from the root
\* and the pre-order position of its parent (0 for the root)
RECURSIVE Walk(_, _, _, _)
Walk(t, path, parent, done) ==
    LET me == done + 1
        step(acc, i) ==
            acc \o Walk(Children(t)[i], Append(path, i - 1), me, done + Len(acc))
        RECURSIVE fold(_, _)
        fold(acc, i) ==
            IF i > Len(Children(t)) THEN acc ELSE fold(step(acc, i), i + 1)
    IN fold(<<[path |-> path, parent |-> parent, ann |-> t]>>, 1)

Nodes(t) == Walk(t, <<>>, 0, 0)

DigitChars == <<48, 49, 50, 51, 52, 53, 54, 55, 56, 57>>

\* the decimal numeral of n
RECURSIVE Decimal(_)
Decimal(n) ==
    (IF n >= 10 THEN Decimal(n \div 10) ELSE <<>>) \o <<DigitChars[(n % 10) + 1]>>

\* the hierarchical path of a node as a row label
RECURSIVE PathIndex(_, _, _)
PathIndex(index, separator, path) ==
    IF path = <<>> THEN index
    ELSE PathIndex(index, separator, SubSeq(path, 1, Len(path) - 1))
         \o separator \o Decimal(path[Len(path)])

\* the Spec metadata attached at a node
SpecsAt(t) ==
    IF t.origin = "Annotated"
    THEN SelectSeq(t.metadata, LAMBDA m : m.cls = "Spec")
    ELSE <<>>

\* the keys of the Spec metadata attached at a node, and the type column
KeysAt(t, type) ==
    UNION {Keys(SpecsAt(t)[i].items) : i \in 1..Len(SpecsAt(t))} \cup Range(type)

KeysOfTree(t, type) == UNION {KeysAt(Nodes(t)[k].ann, type) : k \in 1..Len(Nodes(t))}

\* the value a node has for a column: the stripped annotation in the type
\* column, else the value of the last Spec that has the key (the stripped
\* annotation when that value is an ITSELF sentinel), else <NA>
ValueAt(t, col, type) ==
    LET with == {i \in 1..Len(SpecsAt(t)) : col \in Keys(SpecsAt(t)[i].items)}
        v == Get(SpecsAt(t)[CHOOSE i \in with : \A j \in with : j <= i].items, col)
    IN IF col \in Range(type) THEN TypeObj(Bare(t))
       ELSE IF with = {} THEN NA
       ELSE IF v.kind = "Itself" THEN TypeObj(Bare(t))
       ELSE v

\* the cell of a returned frame in a row and a named column
Cell(f, r, col) == f.data[r][IndexOf(f.columns, col)]

Returned(name) == pc = name /\ ~ret.raised

\* the value of the first node that has one for the column, root first
FirstValue(t, col, type) ==
    LET has == {k \in 1..Len(Nodes(t)) : ValueAt(Nodes(t)[k].ann, col, type) # NA}
    IN IF has = {} THEN NA
       ELSE ValueAt(Nodes(t)[CHOOSE k \in has : \A h \in has : k <= h].ann, col, type)

(***************************************************************************)
(* The properties.                                                         *)
(***************************************************************************)
\* C1: from_annotation with merge=False returns exactly one row per node of
\* the annotation tree, in depth-first pre-order (row k is labelled with
\* the path of the k-th node), also for nodes without any metadata.
C1_OneRowPerNodeInPreOrder ==
    (pc = "from_annotation" /\ ~args.merge) =>
        /\ ~ret.raised
        /\ Len(ret.index) = Len(Nodes(args.obj))
        /\ \A k \in 1..Len(ret.index) :
              ret.index[k] =
                  PathIndex(args.index, args.separator, Nodes(args.obj)[k].path)

\* C2: from_annotation with merge=True returns one row, labelled with the
\* root index, that holds in every column the root's own value when it is
\* not <NA>, otherwise the value of the first later node in pre-order that
\* has a value for the column, and <NA> only when no node has one.
C2_MergedRowTakesFirstValue ==
    (pc = "from_annotation" /\ args.merge) =>
        /\ ~ret.raised
        /\ ret.index = <<args.index>>
        /\ \A col \in KeysOfTree(args.obj, args.type) :
              /\ col \in Range(ret.columns)
              /\ Cell(ret, 1, col) = FirstValue(args.obj, col, args.type)

\* C3: the columns of the frame returned by from_annotation are the union
\* of the keys of the Spec metadata of all nodes (and the type column), each
\* once, and with merge=False a node without a value for a column holds
\* <NA> in it.
C3_ColumnsAreUnionOfKeys ==
    (pc = "from_annotation") =>
        /\ ~ret.raised
        /\ Range(ret.columns) = KeysOfTree(args.obj, args.type)
        /\ ~HasDuplicates(ret.columns)
        /\ ~args.merge =>
              \A k \in 1..Len(ret.index) : \A col \in Range(ret.columns) :
                  (k <= Len(Nodes(args.obj))
                   /\ col \notin KeysAt(Nodes(args.obj)[k].ann, args.type))
                      => Cell(ret, k, col) = NA

\* C4: in the frame returned by from_annotation with merge=False the first
\* row is labelled index, and the row of the i-th child of the node in the
\* row labelled p is labelled p + separator + str(i), at every depth.
C4_ChildIndexIsParentSeparatorNumber ==
    (Returned("from_annotation") /\ ~args.merge) =>
        /\ Len(ret.index) = Len(Nodes(args.obj))
        /\ ret.index[1] = args.index
        /\ \A k \in 2..Len(ret.index) :
              LET n == Nodes(args.obj)[k]
              IN ret.index[k] =
                    ret.index[n.parent] \o args.separator
                        \o Decimal(n.path[Len(n.path)])

C4_Witness ==
    /\ Returned("from_annotation") /\ ~args.merge
    /\ args.separator = S_one
    /\ Len(ret.index) > 11
    /\ \E k \in 1..Len(ret.index) :
          /\ Len(Nodes(args.obj)[k].path) = 2
          /\ Nodes(args.obj)[k].path[2] >= 10
    /\ \E k \in 1..Len(ret.index) :
          /\ Len(Nodes(args.obj)[k].path) = 3
          /\ ret.index[k] = args.index \o <<49, 48, 49, 49, 49, 48>>

\* C5: with a type column, every row of from_annotation with merge=False
\* holds in it the row's node's annotation stripped of all metadata, also
\* when a Spec of the node has the type column's name for a key; with
\* type=None no column is added to the keys of the Spec metadata.
C5_TypeColumnHoldsStrippedAnnotation ==
    (pc = "from_annotation" /\ ~args.merge) =>
        /\ ~ret.raised
        /\ Range(ret.columns) = KeysOfTree(args.obj, args.type)
        /\ args.type # <<>> =>
              /\ Len(ret.index) = Len(Nodes(args.obj))
              /\ \A k \in 1..Len(ret.index) :
                    Cell(ret, k, args.type[1]) = TypeObj(Bare(Nodes(args.obj)[k].ann))

\* the row from_annotation returns for one field of an annotated object
FieldRow(k) ==
    from_annotation(
        WithData(args.obj, args.obj.annotations[k].key,
                 args.obj.annotations[k].value, args.data),
        args.obj.annotations[k].key, TRUE, args.separator, args.type)

\* C6: from_annotated with merge=True returns one row per annotated field,
\* labelled with the field names in the order of the annotations, each row
\* equal to the row from_annotation returns for that field alone (<NA> in
\* the columns that row does not have); no annotations give no rows.
C6_OneMergedRowPerField ==
    (pc = "from_annotated" /\ args.merge) =>
        /\ ~ret.raised
        /\ ret.index = [k \in 1..Len(args.obj.annotations) |->
                            args.obj.annotations[k].key]
        /\ \A k \in 1..Len(ret.index) :
              /\ ~FieldRow(k).raised
              /\ Range(FieldRow(k).columns) \subseteq Range(ret.columns)
              /\ \A col \in Range(ret.columns) :
                    Cell(ret, k, col) =
                        IF col \in Range(FieldRow(k).columns)
                        THEN Cell(FieldRow(k), 1, col) ELSE NA

\* the rows of from_annotated with merge=False: for each row the field it
\* belongs to and whether it is the field's root row
RowsOfFields(obj) ==
    Flatten([f \in 1..Len(obj.annotations) |->
        [k \in 1..Len(Nodes(obj.annotations[f].value)) |->
            [field |-> obj.annotations[f].key, root |-> k = 1]]])

\* C7: from_annotated with data not None and merge=False puts the object's
\* attribute of the field name (<NA> without such an attribute) in the data
\* column of each field's root row and leaves the data column of the other
\* rows as it is without the data argument; data=None adds no column.
C7_DataColumnHoldsAttribute ==
    (pc = "from_annotated" /\ ~args.merge) =>
        LET rows == RowsOfFields(args.obj)
            plain == from_annotated(args.obj, <<>>, FALSE, args.separator, args.type)
        IN /\ ~ret.raised
           /\ Len(ret.index) = Len(rows)
           /\ args.data = <<>> =>
                 Range(ret.columns) =
                     UNION {KeysOfTree(args.obj.annotations[f].value, args.type) :
                                f \in 1..Len(args.obj.annotations)}
           /\ args.data # <<>> =>
                 \A k \in 1..Len(rows) :
                     Cell(ret, k, args.data[1]) =
                         IF rows[k].root
                         THEN getattr(args.obj, rows[k].field, NA)
                         ELSE IF args.data[1] \in Range(plain.columns)
                              THEN Cell(plain, k, args.data[1]) ELSE NA

\* the value of the last Spec attached at the root that has the key
LastValue(t, col) ==
    LET with == {i \in 1..Len(SpecsAt(t)) : col \in Keys(SpecsAt(t)[i].items)}
    IN Get(SpecsAt(t)[CHOOSE i \in with : \A j \in with : j <= i].items, col)

\* C8: Spec.replace(old, new) returns a Spec with the keys of the original,
\* in their order, where the values equal (==) to old are new and the others
\* are kept; and in the root row of from_annotation every value that is an
\* instance of the ITSELF sentinel's type, ITSELF or not, is the stripped
\* annotation.
C8_ReplaceByEquality ==
    /\ pc = "replace" =>
          /\ ret.cls = "Spec"
          /\ Len(ret.items) = Len(args.obj.items)
          /\ \A i \in 1..Len(ret.items) :
                /\ ret.items[i].key = args.obj.items[i].key
                /\ ret.items[i].value =
                      IF \/ args.obj.items[i].value = args.old_value
                         \/ /\ args.obj.items[i].value.kind = "Itself"
                            /\ args.old_value.kind = "Itself"
                      THEN args.new_value ELSE args.obj.items[i].value
    /\ (Returned("from_annotation") /\ ~args.merge) =>
          \A col \in KeysAt(args.obj, <<>>) \ Range(args.type) :
              LastValue(args.obj, col).kind = "Itself"
                  => Cell(ret, 1, col) = TypeObj(Bare(args.obj))

\* a value that is another instance of the sentinel's type is replaced
\* when old is ITSELF, next to a value that is kept
C8_Witness ==
    /\ pc = "replace"
    /\ args.old_value = ITSELF
    /\ args.new_value = IntObj(2)
    /\ Len(args.obj.items) = 2
    /\ args.obj.items[1].value = OtherItself /\ ret.items[1].value = IntObj(2)
    /\ args.obj.items[2].value = IntObj(1) /\ ret.items[2].value = IntObj(1)

\* C9: is_spec is true exactly for the instances of Spec (false for a plain
\* dict), and the frame of from_annotation takes its columns and values
\* from Spec metadata only: a plain dict or another object adds neither.
C9_OnlySpecMetadataCounts ==
    /\ pc = "is_spec" => (ret <=> args.obj.cls = "Spec")
    /\ Returned("from_annotation") =>
          /\ Range(ret.columns) \subseteq KeysOfTree(args.obj, args.type)
          /\ \A r \in 1..Len(ret.index) : \A col \in Range(ret.columns) :
                \/ Cell(ret, r, col) = NA
                \/ \E k \in 1..Len(Nodes(args.obj)) :
                      Cell(ret, r, col) = ValueAt(Nodes(args.obj)[k].ann, col, args.type)

\* a node carries a plain dict whose key no Spec of the tree has
C9_Witness ==
    /\ Returned("from_annotation")
    /\ S_a \notin Range(ret.columns)
    /\ Len(ret.index) > 1
    /\ \E k \in 1..Len(Nodes(args.obj)) :
          LET t == Nodes(args.obj)[k].ann
          IN /\ t.origin = "Annotated"
             /\ \E i \in 1..Len(t.metadata) :
                   t.metadata[i].cls = "dict" /\ S_a \in Keys(t.metadata[i].items)

\* C10: for every index and separator the row labels of from_annotation
\* with merge=False are pairwise distinct, so that no node's values are
\* written to another node's row.
C10_RowIndicesDistinct ==
    (pc = "from_annotation" /\ ~args.merge) =>
        /\ ~ret.raised
        /\ ~HasDuplicates(ret.index)

(***************************************************************************)
(* The same properties on the inputs whose row labels do not collide: the  *)
(* violations of C1, C3, C5 and C6 all come from colliding labels.         *)
(***************************************************************************)
Labels(t, index, separator) ==
    [k \in 1..Len(Nodes(t)) |-> PathIndex(index, separator, Nodes(t)[k].path)]

DistinctLabels ==
    /\ pc = "from_annotation" =>
          ~HasDuplicates(Labels(args.obj, args.index, args.separator))
    /\ pc = "from_annotated" =>
          \A f \in 1..Len(args.obj.annotations) :
              ~HasDuplicates(Labels(args.obj.annotations[f].value,
                                    args.obj.annotations[f].key, args.separator))

C1_WhenLabelsDistinct == DistinctLabels => C1_OneRowPerNodeInPreOrder

C3_WhenLabelsDistinct == DistinctLabels => C3_ColumnsAreUnionOfKeys

C5_WhenLabelsDistinct == DistinctLabels => C5_TypeColumnHoldsStrippedAnnotation

C6_WhenLabelsDistinct == DistinctLabels => C6_OneMergedRowPerField

C10_SlashLabelsDistinct ==
    (pc = "from_annotation" /\ args.separator = S_slash) => DistinctLabels
====
